---- MODULE Spec2Model ----
(***************************************************************************)
(* The movie search component of MovieDataConsoleApplication.py:           *)
(* MovieDataSource (a lazily reloading, lock-guarded record store with     *)
(* secondary indices), the three search strategies, and MovieManager.search *)
(* behind functools.lru_cache, called from several threads while the       *)
(* source file is rewritten or removed by the outside world.               *)
(***************************************************************************)
EXTENDS Integers, Sequences, FiniteSets, TLC

(* ------------------------------ bounds -------------------------------- *)

\* Largest modification time the file reaches (it starts at 1, every write
\* advances it by one).
MaxMtime == 2

\* Capacity of the result cache in the model; the program's lru_cache has
\* maxsize=128 (line 121), scaled down so that eviction is reached.
maxsize == 2

\* The threads calling MovieManager.search.
Threads == {1, 2}

(* ------------------------------ strings ------------------------------- *)
\* A Python str is a sequence of one-character strings.  None is a value
\* that is not a str: a one-element sequence whose element is no character.

None == <<"<None>">>

\* str.lower() on one character.
LowerChar(c) ==
  CASE c = "A" -> "a"
    [] c = "B" -> "b"
    [] OTHER -> c

\* str.lower()
Lower(s) == [i \in 1..Len(s) |-> LowerChar(s[i])]

\* The Python expression  q in s  for two str values.
Contains(s, q) ==
  \E i \in 0..(Len(s) - Len(q)) : SubSeq(s, i + 1, i + Len(q)) = q

Digits == <<"0", "1", "2", "3", "4", "5", "6", "7", "8", "9">>

IsDigit(c) == \E d \in 1..10 : Digits[d] = c

DigitVal(c) == (CHOOSE d \in 1..10 : Digits[d] = c) - 1

\* Whether int(cell) returns: the cell is a str of decimal digits.  A None
\* cell raises TypeError, an empty or non-numeric one ValueError.
IntParses(cell) ==
  /\ cell # None
  /\ Len(cell) > 0
  /\ \A i \in 1..Len(cell) : IsDigit(cell[i])

RECURSIVE IntValue(_)
\* int(cell) for a cell of decimal digits.
IntValue(cell) ==
  IF Len(cell) = 0 THEN 0
  ELSE 10 * IntValue(SubSeq(cell, 1, Len(cell) - 1)) + DigitVal(cell[Len(cell)])

RECURSIVE Str(_)
\* str(n) for an int n >= 0.
Str(n) ==
  IF n < 10 THEN <<Digits[n + 1]>>
  ELSE Append(Str(n \div 10), Digits[(n % 10) + 1])

(* ------------------------------ the file ------------------------------ *)
\* One data row as csv.DictReader yields it under the header
\* title,release_year,director: a cell the line does not have is None.

Row(t, y, d) == [title |-> t, release_year |-> y, director |-> d]

\* The contents the source file takes.
GoodTwo == << Row(<<"A", "b">>, <<"1">>, <<"a", "B">>),
              Row(<<"b">>, <<"2">>, <<"A", "b">>) >>
GoodOne == << Row(<<"A">>, <<"2">>, <<"B">>) >>
NoDirector == << Row(<<"A", "b">>, <<"1">>, <<"a", "B">>),
                 Row(<<"b">>, <<"2">>, None) >>
BadYear == << Row(<<"A", "b">>, <<"x">>, <<"a", "B">>) >>

Contents == {GoodTwo, GoodOne, NoDirector, BadYear}

(* ------------------------------ queries ------------------------------- *)

StrArg(s) == [t |-> "str", v |-> s]
IntArg(n) == [t |-> "int", v |-> n]

Query(c, q) == [criteria |-> c, query |-> q]

\* The (criteria, query) pairs the concurrent callers pass to
\* MovieManager.search.
Queries ==
  { Query("DIRECTOR", StrArg(<<"a">>)),
    Query("DIRECTOR", StrArg(<<"A">>)),
    Query("YEAR", IntArg(2)) }

NoQuery == Query("NONE", IntArg(0))

(* ------------------------------- state -------------------------------- *)

VARIABLES
  file,           \* the source file: [exists, mtime, rows]
  movies,         \* MovieDataSource._movies: [loaded, ver, recs]; loaded =
                  \* FALSE is None; ver is the mtime the file had when the
                  \* rows of recs were read (history, not program state)
  last_modified,  \* MovieDataSource._last_modified
  index,          \* MovieDataSource._index: [year, director], key -> records
  lock,           \* MovieDataSource._lock: 0 free, else the holding thread
  cache,          \* lru_cache of MovieManager.search: entries, least
                  \* recently used first
  pc,             \* position of each thread in its search call
  args,           \* the (criteria, query) of each thread's call
  current_mtime,  \* the local current_mtime of MovieDataSource.movies
  snap,           \* the list MovieDataSource.movies returned to the thread
  ret,            \* the call's outcome: [outcome, exc, result, hit,
                  \* accessed, reloaded]; exc is the exception class
  ui,             \* ConsoleUI.run: [pc, choice, msg, last]; last is the
                  \* arguments of the latest search when it raised
                  \* (history, not program state)
  simple          \* the simple MovieManager and its main loop:
                  \* [movies, pc, choice, msg, result]

vars == <<file, movies, last_modified, index, lock, cache, pc, args,
          current_mtime, snap, ret, ui, simple>>

EmptyDict == [k \in {} |-> <<>>]

NoMovies == [loaded |-> FALSE, ver |-> 0, recs |-> <<>>]

NoRet == [outcome |-> "none", exc |-> "none", result |-> <<>>, hit |-> FALSE,
          accessed |-> FALSE, reloaded |-> FALSE]

\* ConsoleUI.run before its first prompt.
NoUI == [pc |-> "prompt", choice |-> "", msg |-> "none", last |-> NoQuery]

\* No simple MovieManager constructed.
NoSimple == [movies |-> <<>>, pc |-> "prompt", choice |-> "", msg |-> "none",
             result |-> <<>>]

\* What a step of the searching threads leaves alone.
Frame == UNCHANGED <<ui, simple>>

Init ==
  /\ file = [exists |-> TRUE, mtime |-> 1, rows |-> GoodTwo]
  /\ movies = NoMovies
  /\ last_modified = 0
  /\ index = [year |-> EmptyDict, director |-> EmptyDict]
  /\ lock = 0
  /\ cache = <<>>
  /\ pc = [t \in Threads |-> "idle"]
  /\ args = [t \in Threads |-> NoQuery]
  /\ current_mtime = [t \in Threads |-> 0]
  /\ snap = [t \in Threads |-> NoMovies]
  /\ ret = [t \in Threads |-> NoRet]
  /\ ui = NoUI
  /\ simple = NoSimple

(* --------------------------- _load_movies ----------------------------- *)

\* Whether Movie(...) is built from the row: int(row['release_year'])
\* returns.  row['title'] and row['director'] are read whatever they hold.
RowParses(row) == IntParses(row.release_year)

\* Movie(title=row['title'], release_year=int(row['release_year']),
\*       director=row['director'])
Movie(row) ==
  [title |-> row.title,
   release_year |-> IntValue(row.release_year),
   director |-> row.director]

\* The local list movies of _load_movies after the loop over the reader.
ParseRows(rows) == [i \in 1..Len(rows) |-> Movie(rows[i])]

\* Whether the loop over the reader raises.
ParseFails(rows) == \E i \in 1..Len(rows) : ~RowParses(rows[i])

\* The exception int() raises on the first row it rejects: TypeError on a
\* None cell, ValueError on a str that is no integer.
ParseError(rows) ==
  LET i == CHOOSE k \in 1..Len(rows) :
             ~RowParses(rows[k]) /\ \A j \in 1..(k - 1) : RowParses(rows[j])
  IN  IF rows[i].release_year = None THEN "TypeError" ELSE "ValueError"

(* --------------------------- _build_index ----------------------------- *)

\* d[k].append(m) on a defaultdict(list).
DictAppend(d, k, m) ==
  [x \in (DOMAIN d) \cup {k} |->
     IF x = k
       THEN (IF k \in DOMAIN d THEN Append(d[k], m) ELSE <<m>>)
       ELSE d[x]]

RECURSIVE IndexByYear(_, _)
\* for movie in self._movies: self._index['year'][str(year)].append(movie)
IndexByYear(recs, n) ==
  IF n = 0 THEN EmptyDict
  ELSE DictAppend(IndexByYear(recs, n - 1), Str(recs[n].release_year), recs[n])

RECURSIVE IndexByDirector(_, _)
\* for movie in self._movies:
\*     self._index['director'][movie.director.lower()].append(movie)
IndexByDirector(recs, n) ==
  IF n = 0 THEN EmptyDict
  ELSE DictAppend(IndexByDirector(recs, n - 1), Lower(recs[n].director), recs[n])

\* movie.director.lower() raises AttributeError on a None director.
IndexFails(recs) == \E i \in 1..Len(recs) : recs[i].director = None

\* How many records the second loop indexed before it raised.
IndexedBeforeFailure(recs) ==
  IF IndexFails(recs)
    THEN (CHOOSE i \in 1..Len(recs) :
            /\ recs[i].director = None
            /\ \A j \in 1..(i - 1) : recs[j].director # None) - 1
    ELSE Len(recs)

\* The lists of d2 appended to those of d1, key by key.
DictExtend(d1, d2) ==
  [k \in (DOMAIN d1) \cup (DOMAIN d2) |->
     (IF k \in DOMAIN d1 THEN d1[k] ELSE <<>>)
       \o (IF k \in DOMAIN d2 THEN d2[k] ELSE <<>>)]

\* Mutant: _build_index without self._index.clear(); the new records are
\* appended to what the index held.
BuildIndexNoClear(recs) ==
  [year |-> DictExtend(index.year, IndexByYear(recs, Len(recs))),
   director |-> DictExtend(index.director,
                           IndexByDirector(recs, IndexedBeforeFailure(recs)))]

\* self._index after _build_index, whether it returned or raised.
BuildIndex(recs) ==
  [year |-> IndexByYear(recs, Len(recs)),
   director |-> IndexByDirector(recs, IndexedBeforeFailure(recs))]

(* ------------------------- search strategies -------------------------- *)

TitleMatches(m, query) == Contains(Lower(m.title), Lower(query.v))

\* TitleSearchStrategy.search
TitleSearchStrategy(recs, query) ==
  SelectSeq(recs, LAMBDA m : TitleMatches(m, query))

YearMatches(m, query) == query.t = "int" /\ m.release_year = query.v

\* YearSearchStrategy.search
YearSearchStrategy(recs, query) ==
  SelectSeq(recs, LAMBDA m : YearMatches(m, query))

\* Mutant: the director is matched without lower-casing either side.
DirectorMatchesExact(m, query) == Contains(m.director, query.v)

DirectorMatches(m, query) == Contains(Lower(m.director), Lower(query.v))

\* DirectorSearchStrategy.search
DirectorSearchStrategy(recs, query) ==
  SelectSeq(recs, LAMBDA m : DirectorMatches(m, query))

\* Whether strategy.search raises: query.lower() on an int, or
\* movie.director.lower() on a None director.
StrategyRaises(criteria, recs, query) ==
  CASE criteria = "TITLE" -> query.t # "str"
    [] criteria = "DIRECTOR" -> query.t # "str" \/ IndexFails(recs)
    [] OTHER -> FALSE

\* self._search_strategies[criteria].search(movies, query)
StrategySearch(criteria, recs, query) ==
  CASE criteria = "TITLE" -> TitleSearchStrategy(recs, query)
    [] criteria = "DIRECTOR" -> DirectorSearchStrategy(recs, query)
    [] OTHER -> YearSearchStrategy(recs, query)

(* ----------------------------- lru_cache ------------------------------ *)

\* The key lru_cache makes of the call's arguments: the arguments as given.
MakeKey(a) == <<a.criteria, a.query>>

CacheKeys(c) == {c[i].key : i \in 1..Len(c)}

\* Mutant: the lookup never finds its key (a cache of no capacity).
CacheHasNever(c, k) == FALSE

CacheHas(c, k) == k \in CacheKeys(c)

CachePos(c, k) == CHOOSE i \in 1..Len(c) : c[i].key = k

CacheGet(c, k) == c[CachePos(c, k)].value

\* Mutant: a hit leaves the order as it is (first in, first out).
CacheTouchNone(c, k) == c

\* A hit moves the entry to the most recently used end.
CacheTouch(c, k) ==
  LET i == CachePos(c, k)
  IN  Append(SubSeq(c, 1, i - 1) \o SubSeq(c, i + 1, Len(c)), c[i])

\* After the wrapped call returned v: a key another call added meanwhile is
\* left as it is; a full cache drops its least recently used entry.
CachePut(c, k, v) ==
  IF CacheHas(c, k) THEN c
  ELSE IF Len(c) >= maxsize THEN Append(Tail(c), [key |-> k, value |-> v])
  ELSE Append(c, [key |-> k, value |-> v])

(* ------------------------- the outside world -------------------------- *)

\* The file is replaced by other content; its modification time advances.
WriteFile(c) ==
  /\ file.mtime < MaxMtime
  /\ ~file.exists \/ c # file.rows
  /\ file' = [exists |-> TRUE, mtime |-> file.mtime + 1, rows |-> c]
  /\ UNCHANGED <<movies, last_modified, index, lock, cache, pc, args,
                 current_mtime, snap, ret>>

\* The file is removed.
RemoveFile ==
  /\ file.exists
  /\ file' = [file EXCEPT !.exists = FALSE]
  /\ UNCHANGED <<movies, last_modified, index, lock, cache, pc, args,
                 current_mtime, snap, ret>>

(* ------------------------ MovieManager.search ------------------------- *)

\* A thread calls search(criteria, query): the lru_cache wrapper looks the
\* key up; a hit returns the cached list, a miss goes on to the wrapped
\* function.
Call(t, a) ==
  /\ pc[t] = "idle"
  /\ args' = [args EXCEPT ![t] = a]
  /\ LET k == MakeKey(a)
     IN  IF CacheHas(cache, k)
           THEN /\ cache' = CacheTouch(cache, k)
                /\ ret' = [ret EXCEPT ![t] = [NoRet EXCEPT
                              !.outcome = "ok",
                              !.result = CacheGet(cache, k),
                              !.hit = TRUE]]
                /\ pc' = [pc EXCEPT ![t] = "done"]
           ELSE /\ pc' = [pc EXCEPT ![t] = "getmtime"]
                /\ UNCHANGED <<cache, ret>>
  /\ UNCHANGED <<file, movies, last_modified, index, lock,
                 current_mtime, snap>>

(* ----------------------- MovieDataSource.movies ----------------------- *)

\* Mutant: a missing file is given mtime 0 in place of the raise.
GetMtimeDefault(t) ==
  /\ pc[t] = "getmtime"
  /\ current_mtime' = [current_mtime EXCEPT ![t] = IF file.exists
                                                     THEN file.mtime ELSE 0]
  /\ ret' = [ret EXCEPT ![t].accessed = TRUE]
  /\ pc' = [pc EXCEPT ![t] = "acquire"]
  /\ UNCHANGED <<file, movies, last_modified, index, lock, cache, args, snap>>

\* current_mtime = os.path.getmtime(self.filename), before the lock is
\* taken; it raises when the file does not exist.
GetMtime(t) ==
  /\ pc[t] = "getmtime"
  /\ IF file.exists
       THEN /\ current_mtime' = [current_mtime EXCEPT ![t] = file.mtime]
            /\ ret' = [ret EXCEPT ![t].accessed = TRUE]
            /\ pc' = [pc EXCEPT ![t] = "acquire"]
       ELSE /\ ret' = [ret EXCEPT ![t].accessed = TRUE,
                                  ![t].outcome = "error",
                                  ![t].exc = "FileNotFoundError"]
            /\ pc' = [pc EXCEPT ![t] = "done"]
            /\ UNCHANGED current_mtime
  /\ UNCHANGED <<file, movies, last_modified, index, lock, cache, args, snap>>

\* with self._lock: entered
Acquire(t) ==
  /\ pc[t] = "acquire"
  /\ lock = 0
  /\ lock' = t
  /\ pc' = [pc EXCEPT ![t] = "locked"]
  /\ UNCHANGED <<file, movies, last_modified, index, cache, args,
                 current_mtime, snap, ret>>

\* The condition of the if statement under the lock.
NeedsLoad(t) == ~movies.loaded \/ current_mtime[t] > last_modified

\* The with statement written wrongly in two ways: stampFirst records the
\* timestamp before _load_movies is called, keepLock leaves the lock held
\* when the load raises.
MoviesLockedWrong(t, stampFirst, keepLock) ==
  /\ pc[t] = "locked"
  /\ lock = t
  /\ IF ~NeedsLoad(t)
       THEN /\ snap' = [snap EXCEPT ![t] = movies]
            /\ pc' = [pc EXCEPT ![t] = "compute"]
            /\ lock' = 0
            /\ UNCHANGED <<movies, index, last_modified, ret>>
       ELSE IF ~file.exists \/ ParseFails(file.rows)
       THEN /\ ret' = [ret EXCEPT ![t].outcome = "error",
                                  ![t].exc = IF ~file.exists
                                               THEN "FileNotFoundError"
                                               ELSE ParseError(file.rows)]
            /\ pc' = [pc EXCEPT ![t] = "done"]
            /\ lock' = IF keepLock THEN t ELSE 0
            /\ last_modified' = IF stampFirst THEN current_mtime[t]
                                              ELSE last_modified
            /\ UNCHANGED <<movies, index, snap>>
       ELSE LET recs == ParseRows(file.rows)
                new == [loaded |-> TRUE, ver |-> file.mtime, recs |-> recs]
            IN  /\ movies' = new
                /\ index' = BuildIndex(recs)
                /\ IF IndexFails(recs)
                     THEN /\ ret' = [ret EXCEPT ![t].outcome = "error",
                                                ![t].exc = "AttributeError"]
                          /\ pc' = [pc EXCEPT ![t] = "done"]
                          /\ lock' = IF keepLock THEN t ELSE 0
                          /\ last_modified' = IF stampFirst
                                                THEN current_mtime[t]
                                                ELSE last_modified
                          /\ UNCHANGED snap
                     ELSE /\ last_modified' = current_mtime[t]
                          /\ snap' = [snap EXCEPT ![t] = new]
                          /\ ret' = [ret EXCEPT ![t].reloaded = TRUE]
                          /\ pc' = [pc EXCEPT ![t] = "compute"]
                          /\ lock' = 0

\* Mutant: self._last_modified = current_mtime placed before
\* self._load_movies().
MoviesLockedStampFirst(t) == MoviesLockedWrong(t, TRUE, FALSE)

\* Mutant: acquire() and release() by hand, no release on the raising path.
MoviesLockedKeepsLock(t) == MoviesLockedWrong(t, FALSE, TRUE)

\* The body of the with statement: the check, _load_movies with
\* _build_index, the timestamp, the return; the lock is released on the way
\* out, also when the load raises.
MoviesLocked(t) ==
  /\ pc[t] = "locked"
  /\ lock = t
  /\ lock' = 0
  /\ IF ~NeedsLoad(t)
       THEN \* return self._movies
            /\ snap' = [snap EXCEPT ![t] = movies]
            /\ pc' = [pc EXCEPT ![t] = "compute"]
            /\ UNCHANGED <<movies, index, last_modified, ret>>
       ELSE IF ~file.exists \/ ParseFails(file.rows)
       THEN \* open() or the loop over the reader raises
            /\ ret' = [ret EXCEPT ![t].outcome = "error",
                                  ![t].exc = IF ~file.exists
                                               THEN "FileNotFoundError"
                                               ELSE ParseError(file.rows)]
            /\ pc' = [pc EXCEPT ![t] = "done"]
            /\ UNCHANGED <<movies, index, last_modified, snap>>
       ELSE LET recs == ParseRows(file.rows)
                new == [loaded |-> TRUE, ver |-> file.mtime, recs |-> recs]
            IN  \* self._movies = movies; self._build_index()
                /\ movies' = new
                /\ index' = BuildIndex(recs)
                /\ IF IndexFails(recs)
                     THEN /\ ret' = [ret EXCEPT ![t].outcome = "error",
                                                ![t].exc = "AttributeError"]
                          /\ pc' = [pc EXCEPT ![t] = "done"]
                          /\ UNCHANGED <<last_modified, snap>>
                     ELSE /\ last_modified' = current_mtime[t]
                          /\ snap' = [snap EXCEPT ![t] = new]
                          /\ ret' = [ret EXCEPT ![t].reloaded = TRUE]
                          /\ pc' = [pc EXCEPT ![t] = "compute"]

\* Mutant: a reload clears the result cache.
CheckLoadInvalidating(t) ==
  /\ MoviesLocked(t)
  /\ cache' = IF ret'[t].reloaded THEN <<>> ELSE cache
  /\ UNCHANGED <<file, args, current_mtime>>

\* Mutant: a load that raises is answered with an empty result, which is
\* cached under the call's key.
CheckLoadCachingError(t) ==
  /\ MoviesLocked(t)
  /\ cache' = IF ret'[t].outcome = "error"
                THEN CachePut(cache, MakeKey(args[t]), <<>>)
                ELSE cache
  /\ UNCHANGED <<file, args, current_mtime>>

\* MovieDataSource.movies from the lock on; it knows nothing of the cache.
CheckLoad(t) ==
  /\ MoviesLocked(t)
  /\ UNCHANGED <<file, cache, args, current_mtime>>

\* strategy.search(self.data_source.movies, query) on the list returned, and
\* the wrapper storing the result under the key.
Compute(t) ==
  /\ pc[t] = "compute"
  /\ LET a == args[t]
         recs == snap[t].recs
     IN  IF StrategyRaises(a.criteria, recs, a.query)
           THEN /\ ret' = [ret EXCEPT ![t].outcome = "error",
                                      ![t].exc = "AttributeError"]
                /\ UNCHANGED cache
           ELSE LET r == StrategySearch(a.criteria, recs, a.query)
                IN  /\ ret' = [ret EXCEPT ![t].outcome = "ok", ![t].result = r]
                    /\ cache' = CachePut(cache, MakeKey(a), r)
  /\ pc' = [pc EXCEPT ![t] = "done"]
  /\ current_mtime' = [current_mtime EXCEPT ![t] = 0]
  /\ snap' = [snap EXCEPT ![t] = NoMovies]
  /\ UNCHANGED <<file, movies, last_modified, index, lock, args>>

\* The caller has its result or its exception.
Return(t) ==
  /\ pc[t] = "done"
  /\ pc' = [pc EXCEPT ![t] = "idle"]
  /\ args' = [args EXCEPT ![t] = NoQuery]
  /\ current_mtime' = [current_mtime EXCEPT ![t] = 0]
  /\ snap' = [snap EXCEPT ![t] = NoMovies]
  /\ ret' = [ret EXCEPT ![t] = NoRet]
  /\ UNCHANGED <<file, movies, last_modified, index, lock, cache>>

Next ==
  \/ (\E c \in Contents : WriteFile(c)) /\ Frame
  \/ RemoveFile /\ Frame
  \/ (\E t \in Threads : \E a \in Queries : Call(t, a)) /\ Frame
  \/ (\E t \in Threads : GetMtime(t)) /\ Frame
  \/ (\E t \in Threads : Acquire(t)) /\ Frame
  \/ (\E t \in Threads : CheckLoad(t)) /\ Frame
  \/ (\E t \in Threads : Compute(t)) /\ Frame
  \/ (\E t \in Threads : Return(t)) /\ Frame

Spec == Init /\ [][Next]_vars

(* ------------------ one search on a fresh MovieManager ---------------- *)
\* A second specification: a MovieManager just constructed (nothing loaded,
\* nothing cached), a file that stays as it is, and one search call of one
\* thread, over more files and queries than the concurrent specification.

SearchRows ==
  { Row(<<"A", "b">>, <<"1">>, <<"a", "B">>),
    Row(<<"b">>, <<"2">>, <<"A", "b">>),
    Row(<<"B", "a">>, <<"2">>, <<"B">>),
    Row(<<"a">>, <<"1", "2">>, None) }

SearchContents ==
  {<<>>} \cup {<<r>> : r \in SearchRows}
         \cup {<<r1, r2>> : r1 \in SearchRows, r2 \in SearchRows}

SearchQueries ==
  { Query("TITLE", StrArg(<<"b">>)),
    Query("TITLE", StrArg(<<"B", "A">>)),
    Query("TITLE", StrArg(<<"a", "a">>)),
    Query("DIRECTOR", StrArg(<<"a", "b">>)),
    Query("DIRECTOR", StrArg(<<"B">>)),
    Query("DIRECTOR", StrArg(<<"b", "b">>)),
    Query("YEAR", IntArg(1)),
    Query("YEAR", IntArg(2)),
    Query("YEAR", IntArg(12)),
    Query("YEAR", IntArg(3)) }

InitSearch ==
  /\ file \in {[exists |-> TRUE, mtime |-> 1, rows |-> c] : c \in SearchContents}
  /\ movies = NoMovies
  /\ last_modified = 0
  /\ index = [year |-> EmptyDict, director |-> EmptyDict]
  /\ lock = 0
  /\ cache = <<>>
  /\ pc = [t \in Threads |-> "idle"]
  /\ args = [t \in Threads |-> NoQuery]
  /\ current_mtime = [t \in Threads |-> 0]
  /\ snap = [t \in Threads |-> NoMovies]
  /\ ret = [t \in Threads |-> NoRet]
  /\ ui = NoUI
  /\ simple = NoSimple

NextSearch ==
  \/ (\E a \in SearchQueries : Call(1, a)) /\ Frame
  \/ GetMtime(1) /\ Frame
  \/ Acquire(1) /\ Frame
  \/ CheckLoad(1) /\ Frame
  \/ Compute(1) /\ Frame

SpecSearch == InitSearch /\ [][NextSearch]_vars

(* ------------------------------ claims -------------------------------- *)

\* Thread t leaves the critical section of MovieDataSource.movies in this
\* step.
LeavesLock(t) == pc[t] = "locked" /\ pc'[t] # "locked"

\* The snapshot is the result of a load that returned, and the file has not
\* been written or removed since that load read it.
Untouched ==
  /\ file.exists
  /\ movies.loaded
  /\ ~IndexFails(movies.recs)
  /\ movies.ver = file.mtime

\* C1: after a successful load, an access that starts after the file was
\* replaced returns content at least as new as the replacement, and while
\* the file is not touched every access returns the snapshot as it is and
\* performs no reload.
StalenessDetection ==
  [][\A t \in Threads :
       /\ (LeavesLock(t) /\ pc'[t] = "compute")
            => snap'[t].ver >= current_mtime[t]
       /\ (LeavesLock(t) /\ Untouched)
            => /\ pc'[t] = "compute"
               /\ ~ret'[t].reloaded
               /\ snap'[t] = movies
               /\ movies' = movies]_vars

\* C2: a call that ends with an error leaves the snapshot, the indices and
\* the observed timestamp as they were before it.
FailedReloadKeepsStore ==
  [][\A t \in Threads :
       (pc[t] # "done" /\ pc'[t] = "done" /\ ret'[t].outcome = "error")
         => /\ movies' = movies
            /\ index' = index
            /\ last_modified' = last_modified]_vars

\* C3: no record of a file with a row missing a required field is ever
\* installed as the snapshot: every record of the snapshot has its title
\* and its director.
NoPartialSnapshot ==
  \A i \in 1..Len(movies.recs) :
    /\ movies.recs[i].title # None
    /\ movies.recs[i].director # None

RECURSIVE IndexedCount(_, _)
\* The number of records a dict of lists holds under the keys ks.
IndexedCount(d, ks) ==
  IF ks = {} THEN 0
  ELSE LET k == CHOOSE x \in ks : TRUE
       IN  Len(d[k]) + IndexedCount(d, ks \ {k})

\* C4: whenever a caller is returned the list, the year index and the
\* director index each hold exactly as many records as that list.
SnapshotAgreesWithIndex ==
  [][\A t \in Threads :
       (LeavesLock(t) /\ pc'[t] = "compute")
         => /\ IndexedCount(index'.year, DOMAIN index'.year)
                 = Len(snap'[t].recs)
            /\ IndexedCount(index'.director, DOMAIN index'.director)
                 = Len(snap'[t].recs)]_vars

\* C5: reading the modification time, comparing and reloading are one
\* critical section, so two callers never both reload the same version of
\* the file.
VersionReloadedOnce ==
  \A t1 \in Threads : \A t2 \in Threads \ {t1} :
    ~ /\ pc[t1] = "compute" /\ ret[t1].reloaded
      /\ pc[t2] = "compute" /\ ret[t2].reloaded
      /\ snap[t1].ver = snap[t2].ver

\* The cache key of a call with arguments a, as the claims speak of it.
KeyOf(a) == <<a.criteria, a.query>>

Cached(c, k) == \E i \in 1..Len(c) : c[i].key = k

ValueCached(c, k) == c[CHOOSE i \in 1..Len(c) : c[i].key = k].value

\* Thread t starts a search call in this step.
Starts(t) == pc[t] = "idle" /\ pc'[t] # "idle"

\* Thread t's call returns from the wrapped function with a result in this
\* step.
Computes(t) ==
  pc[t] = "compute" /\ pc'[t] = "done" /\ ret'[t].outcome = "ok"

\* C6: a search whose (criteria, query) pair is in the cache returns the
\* cached result, which is the result of the call that put it there, and
\* does not access the record store.
RepeatedQueryFromCache ==
  [][/\ \A t \in Threads :
          (Starts(t) /\ Cached(cache, KeyOf(args'[t])))
            => /\ pc'[t] = "done"
               /\ ret'[t].outcome = "ok"
               /\ ret'[t].result = ValueCached(cache, KeyOf(args'[t]))
               /\ ~ret'[t].accessed
               /\ UNCHANGED <<file, movies, index, last_modified, lock>>
     /\ \A t \in Threads :
          (Computes(t) /\ ~Cached(cache, KeyOf(args[t])))
            => /\ Cached(cache', KeyOf(args[t]))
               /\ ValueCached(cache', KeyOf(args[t])) = ret'[t].result
     /\ \A i \in 1..Len(cache) : \A j \in 1..Len(cache') :
          cache[i].key = cache'[j].key => cache[i].value = cache'[j].value
    ]_vars

\* C6 witness: a call was answered from the cache with a result that is
\* not empty.
RepeatedQueryHit ==
  \E t \in Threads :
    pc[t] = "done" /\ ret[t].hit /\ ~ret[t].accessed /\ ret[t].result # <<>>

\* The key with its string argument lower-cased.
NormalizedKey(k) ==
  <<k[1], IF k[2].t = "str" THEN StrArg(Lower(k[2].v)) ELSE k[2]>>

\* C7: a query whose key, with the string argument lower-cased, equals the
\* lower-cased key of a cached entry is a cache hit and does not access the
\* record store.
CaseInsensitiveCacheHit ==
  [][\A t \in Threads :
       (/\ Starts(t)
        /\ \E i \in 1..Len(cache) :
             NormalizedKey(cache[i].key) = NormalizedKey(KeyOf(args'[t])))
         => ret'[t].hit /\ pc'[t] = "done"]_vars

\* C8: a reload, a write or a removal of the file leaves every cache entry
\* as it is; an entry leaves the cache only as the least recently used one
\* when a miss is stored into the full cache; and a hit returns the entry's
\* value whatever the store holds by then.
CacheNotInvalidated ==
  [][/\ (\/ file' # file
         \/ movies' # movies
         \/ index' # index
         \/ last_modified' # last_modified) => cache' = cache
     /\ \A i \in 1..Len(cache) :
          ~Cached(cache', cache[i].key)
            => /\ i = 1
               /\ Len(cache) = maxsize
               /\ \E t \in Threads : Computes(t)
     /\ \A t \in Threads :
          (Starts(t) /\ ret'[t].hit)
            => ret'[t].result = ValueCached(cache, KeyOf(args'[t]))
    ]_vars

\* C8 witness: a call was answered from the cache with a result that is not
\* what the query gives on the snapshot now loaded from the rewritten file.
StaleCachedAnswer ==
  \E t \in Threads :
    /\ pc[t] = "done" /\ ret[t].hit
    /\ Untouched /\ movies.ver > 1
    /\ ~StrategyRaises(args[t].criteria, movies.recs, args[t].query)
    /\ ret[t].result # StrategySearch(args[t].criteria, movies.recs, args[t].query)

\* The position of key k in cache c.
PosOf(c, k) == CHOOSE i \in 1..Len(c) : c[i].key = k

\* Thread t's call uses its cache entry in this step: a hit, or a miss
\* whose result is stored.
Uses(t) ==
  \/ Starts(t) /\ ret'[t].hit
  \/ Computes(t) /\ ~Cached(cache, KeyOf(args[t]))

\* C9: the cache never holds more entries than its capacity nor two
\* entries of one key; the entries are kept in order of their last use,
\* where a hit and an insert are uses; and the entry removed is the least
\* recently used one, removed only when a miss is stored into a full cache.
CacheBoundedLRU ==
  /\ [](/\ Len(cache) <= maxsize
        /\ \A i \in 1..Len(cache) : \A j \in 1..Len(cache) :
             cache[i].key = cache[j].key => i = j)
  /\ [][/\ \A t \in Threads :
             Uses(t)
               => /\ Len(cache') > 0
                  /\ cache'[Len(cache')].key = KeyOf(args'[t])
                  /\ \A i \in 1..Len(cache) : \A j \in 1..Len(cache) :
                       (/\ i < j
                        /\ cache[i].key # KeyOf(args'[t])
                        /\ cache[j].key # KeyOf(args'[t])
                        /\ Cached(cache', cache[i].key))
                         => PosOf(cache', cache[i].key)
                              < PosOf(cache', cache[j].key)
        /\ (\A t \in Threads : ~Uses(t)) => cache' = cache
        /\ \A i \in 1..Len(cache) :
             ~Cached(cache', cache[i].key)
               => /\ i = 1
                  /\ Len(cache) = maxsize
                  /\ Len(cache') = maxsize
       ]_vars

\* C9 witness: the cache is full and the key of a call that completed with
\* a result is no longer in it, while the other call's key is the most
\* recently used.
EntryEvicted ==
  \E t1 \in Threads : \E t2 \in Threads \ {t1} :
    /\ Len(cache) = maxsize
    /\ pc[t1] = "done" /\ ret[t1].outcome = "ok"
    /\ pc[t2] = "done" /\ ret[t2].outcome = "ok"
    /\ ~Cached(cache, KeyOf(args[t1]))
    /\ cache[Len(cache)].key = KeyOf(args[t2])

\* Whether q, letter case set aside, occurs in s.
FoldedSubstring(q, s) ==
  \E off \in 0..(Len(s) - Len(q)) :
    \A k \in 1..Len(q) : LowerChar(q[k]) = LowerChar(s[off + k])

\* Whether the row of the file matches the call's arguments, as C10 states
\* it.
RowMatches(row, a) ==
  CASE a.criteria = "TITLE" -> FoldedSubstring(a.query.v, row.title)
    [] a.criteria = "DIRECTOR" -> FoldedSubstring(a.query.v, row.director)
    [] OTHER -> IntValue(row.release_year) = a.query.v

\* Whether result holds the records of exactly the rows idx, in file order.
RecordsOf(result, rows, idx) ==
  /\ Len(result) = Cardinality(idx)
  /\ \E f \in [1..Len(result) -> idx] :
       /\ \A j \in 1..Len(result) : \A k \in 1..Len(result) :
            j < k => f[j] < f[k]
       /\ \A j \in 1..Len(result) :
            /\ result[j].title = rows[f[j]].title
            /\ result[j].director = rows[f[j]].director
            /\ result[j].release_year = IntValue(rows[f[j]].release_year)

\* C10: on a fresh MovieManager whose load returned, search returns, and
\* returns exactly the records of the file's matching rows, in file order:
\* the empty sequence when no row matches.
SearchReturnsMatches ==
  (pc[1] = "done" /\ ret[1].reloaded)
    => /\ ret[1].outcome = "ok"
       /\ RecordsOf(ret[1].result, file.rows,
                    {i \in 1..Len(file.rows) : RowMatches(file.rows[i], args[1])})

\* C10 witness: a director query in another letter case than the file's
\* returned two different records.
SearchFoundTwo ==
  /\ pc[1] = "done" /\ ret[1].outcome = "ok" /\ ~ret[1].hit
  /\ args[1] = Query("DIRECTOR", StrArg(<<"a", "b">>))
  /\ Len(ret[1].result) = 2
  /\ ret[1].result[1] # ret[1].result[2]

----------------------------------------------------------------------------
\* The timestamp and the reload.

\* The step of thread t that leaves the with statement by a raise.
RaisesUnderLock(t) == LeavesLock(t) /\ pc'[t] = "done"

\* The step of thread t that leaves the with statement with a new snapshot.
ReloadsUnderLock(t) ==
  LeavesLock(t) /\ pc'[t] = "compute" /\ ~ret[t].reloaded /\ ret'[t].reloaded

\* C11: _last_modified changes only in the step, taken under the lock,
\* in which a reload succeeds, and then to the mtime that call read; a step
\* that reloads nothing, or whose reload raises, leaves it as it was.
TimestampOnlyWithReload ==
  [][ /\ last_modified' # last_modified
         => \E t \in Threads : /\ ReloadsUnderLock(t)
                                /\ lock = t
                                /\ movies'.loaded
                                /\ movies'.ver = file.mtime
                                /\ last_modified' = current_mtime[t]
      /\ \A t \in Threads :
           (RaisesUnderLock(t) \/ (LeavesLock(t) /\ ~ret'[t].reloaded))
             => last_modified' = last_modified ]_vars

\* A reload has raised after an earlier one succeeded, and the timestamp is
\* still the one of the earlier reload.
FailedReloadKeptTimestamp ==
  \E t \in Threads :
    /\ pc[t] = "done"
    /\ ret[t].outcome = "error"
    /\ ret[t].exc = "ValueError"
    /\ movies.loaded
    /\ last_modified > 0
    /\ last_modified < file.mtime

----------------------------------------------------------------------------
\* The console loops.  ConsoleUI.run drives MovieManager.search as thread 1;
\* main of the simple variant drives a MovieManager that read the file once,
\* when it was constructed.  The two applications share nothing but the
\* file, which the simple one never reads again: they are run one after the
\* other, the simple one first.

\* str.strip for the blank.
RECURSIVE Strip(_)
Strip(s) ==
  IF s = <<>> THEN s
  ELSE IF Head(s) = " " THEN Strip(Tail(s))
  ELSE IF s[Len(s)] = " " THEN Strip(SubSeq(s, 1, Len(s) - 1))
  ELSE s

\* The classes raised that derive from Exception, and the one except
\* clauses name apart.
ExceptionClasses ==
  {"ValueError", "TypeError", "AttributeError", "FileNotFoundError",
   "EOFError"}

\* Mutant: the loop has the except ValueError clause only.
UICaughtValueErrorOnly(exc) ==
  IF exc = "ValueError" THEN "invalid_input" ELSE "propagates"

\* The except clauses of ConsoleUI.run: what the user is told, or that the
\* exception leaves run.
UICaught(exc) ==
  IF exc = "ValueError" THEN "invalid_input"
  ELSE IF exc \in ExceptionClasses THEN "unexpected"
  ELSE "propagates"

\* What the user types: the menu choice, the text of the second prompt;
\* Eof is input() raising EOFError on a closed stdin.
Eof == <<"<EOF>">>
UIInputs ==
  { <<<<"1">>, <<"b", " ">>>>, <<<<"1">>, Eof>>,
    <<<<"2">>, <<"2">>>>, <<<<"2">>, <<"b", " ">>>>,
    <<<<"3">>, <<"b", " ">>>>,
    <<<<" ", "4">>, <<>>>>, <<<<"9">>, <<>>>>, <<Eof, <<>>>> }

\* The files the console applications are started on and see written.
NoYear == << Row(<<"a">>, None, None) >>
UIContents == {GoodTwo, NoDirector, BadYear, NoYear}

\* The loop takes the path of the except clause for exc, or run ends with it.
UIRaise(choice, exc, last) ==
  LET h == UICaught(exc)
  IN  ui' = [ui EXCEPT !.pc = IF h = "propagates" THEN "crashed" ELSE "prompt",
                       !.choice = choice,
                       !.msg = h,
                       !.last = last]

\* One pass of the while loop up to the search call (or to the end of the
\* pass when it makes none).
UIChoose(c, text) ==
  /\ ui.pc = "prompt"
  /\ pc[1] = "idle"
  /\ LET choice == Strip(c)
         query == Strip(text)
         stay == UNCHANGED <<file, movies, last_modified, index, lock, cache,
                             pc, args, current_mtime, snap, ret>>
         search(a) == /\ Call(1, a)
                      /\ ui' = [ui EXCEPT !.pc = "searching",
                                          !.choice = choice]
     IN  IF c = Eof THEN UIRaise(ui.choice, "EOFError", ui.last) /\ stay
         ELSE IF choice = <<"4">>
           THEN /\ ui' = [ui EXCEPT !.pc = "exited", !.choice = choice,
                                    !.msg = "exiting"]
                /\ stay
         ELSE IF choice \notin {<<"1">>, <<"2">>, <<"3">>}
           THEN /\ ui' = [ui EXCEPT !.choice = choice, !.msg = "invalid_choice"]
                /\ stay
         ELSE IF text = Eof THEN UIRaise(choice, "EOFError", ui.last) /\ stay
         ELSE IF choice = <<"1">>
           THEN search(Query("TITLE", StrArg(query)))
         ELSE IF choice = <<"3">>
           THEN search(Query("DIRECTOR", StrArg(query)))
         ELSE IF IntParses(query)
           THEN search(Query("YEAR", IntArg(IntValue(query))))
         ELSE UIRaise(choice, "ValueError", ui.last) /\ stay
  /\ UNCHANGED simple

\* The rest of the pass: display_movies on the result, or the except clause
\* for what search raised.
UIHandle ==
  /\ ui.pc = "searching"
  /\ pc[1] = "done"
  /\ IF ret[1].outcome = "ok"
       THEN ui' = [ui EXCEPT !.pc = "prompt",
                             !.msg = IF ret[1].result = <<>> THEN "no_movies"
                                                             ELSE "results",
                             !.last = NoQuery]
       ELSE UIRaise(ui.choice, ret[1].exc, args[1])
  /\ Return(1)
  /\ UNCHANGED simple

\* MovieManager._load_movies of the simple variant: the rows as the reader
\* yields them, cells unconverted; no rows when the file is not there.
SimpleLoad(f) == IF f.exists THEN f.rows ELSE <<>>

\* MovieManager.search_by_name
search_by_name(ms, name) ==
  SelectSeq(ms, LAMBDA movie : Contains(Lower(movie.title), Lower(name)))

\* MovieManager.search_by_year: the cell is compared, as text, with str(year).
search_by_year(ms, year) ==
  SelectSeq(ms, LAMBDA movie : movie.release_year = Str(year))

\* MovieManager.search_by_director
search_by_director(ms, director) ==
  SelectSeq(ms, LAMBDA movie : Contains(Lower(movie.director), Lower(director)))

\* Whether a search of the simple variant raises: .lower() of a cell that
\* is None.
SimpleRaises(ms, kind) ==
  CASE kind = "name" -> \E i \in 1..Len(ms) : ms[i].title = None
    [] kind = "director" -> \E i \in 1..Len(ms) : ms[i].director = None
    [] OTHER -> FALSE

\* The except Exception clause that closes the try of main.
SimpleCaught(exc) ==
  IF exc \in ExceptionClasses THEN "error_occurred" ELSE "propagates"

\* One pass of the while loop of main.
SimpleStep(c, text) ==
  /\ simple.pc = "prompt"
  /\ LET choice == Strip(c)
         query == Strip(text)
         raise(exc) ==
           LET h == SimpleCaught(exc)
           IN  simple' = [simple EXCEPT
                            !.pc = IF h = "propagates" THEN "crashed"
                                                       ELSE "prompt",
                            !.choice = IF c = Eof THEN simple.choice ELSE choice,
                            !.msg = h]
         display(r) ==
           simple' = [simple EXCEPT !.choice = choice, !.result = r,
                                    !.msg = IF r = <<>> THEN "no_movies"
                                                        ELSE "results"]
     IN  IF c = Eof THEN raise("EOFError")
         ELSE IF choice \notin {<<"1">>, <<"2">>, <<"3">>, <<"4">>}
           THEN simple' = [simple EXCEPT !.choice = choice,
                                         !.msg = "invalid_choice"]
         ELSE IF choice = <<"4">>
           THEN \* break: main returns and its locals are gone
                simple' = [simple EXCEPT !.pc = "exited", !.choice = choice,
                                         !.msg = "exiting", !.result = <<>>]
         ELSE IF text = Eof THEN raise("EOFError")
         ELSE IF choice = <<"1">>
           THEN IF SimpleRaises(simple.movies, "name")
                  THEN raise("AttributeError")
                  ELSE display(search_by_name(simple.movies, query))
         ELSE IF choice = <<"3">>
           THEN IF SimpleRaises(simple.movies, "director")
                  THEN raise("AttributeError")
                  ELSE display(search_by_director(simple.movies, query))
         ELSE IF IntParses(query)
           THEN display(search_by_year(simple.movies, IntValue(query)))
         ELSE \* the inner except ValueError
              simple' = [simple EXCEPT !.choice = choice, !.msg = "invalid_year"]
  /\ UNCHANGED <<file, movies, last_modified, index, lock, cache, pc, args,
                 current_mtime, snap, ret, ui>>

\* Both applications started on the same file.
InitUI ==
  /\ file \in {[exists |-> TRUE, mtime |-> 1, rows |-> c] : c \in UIContents}
              \cup {[exists |-> FALSE, mtime |-> 1, rows |-> <<>>]}
  /\ movies = NoMovies
  /\ last_modified = 0
  /\ index = [year |-> EmptyDict, director |-> EmptyDict]
  /\ lock = 0
  /\ cache = <<>>
  /\ pc = [t \in Threads |-> "idle"]
  /\ args = [t \in Threads |-> NoQuery]
  /\ current_mtime = [t \in Threads |-> 0]
  /\ snap = [t \in Threads |-> NoMovies]
  /\ ret = [t \in Threads |-> NoRet]
  /\ ui = NoUI
  /\ simple = [NoSimple EXCEPT !.movies = SimpleLoad(file)]

NextUI ==
  \/ (\E c \in UIContents : WriteFile(c)) /\ Frame
  \/ RemoveFile /\ Frame
  \/ /\ simple.pc # "prompt"
     /\ \E in \in UIInputs : UIChoose(in[1], in[2])
  \/ GetMtime(1) /\ Frame
  \/ Acquire(1) /\ Frame
  \/ CheckLoad(1) /\ Frame
  \/ Compute(1) /\ Frame
  \/ UIHandle
  \/ \E in \in UIInputs : SimpleStep(in[1], in[2])

SpecUI == InitUI /\ [][NextUI]_vars

----------------------------------------------------------------------------
\* The missing file.

\* The step leaves the store, the timestamp and the cache as they were.
StoreAndCacheKept ==
  /\ movies' = movies
  /\ index' = index
  /\ last_modified' = last_modified
  /\ cache' = cache

\* Thread t's call ends in this step by raising FileNotFoundError.
FailsNotFound(t) ==
  /\ pc'[t] = "done"
  /\ ret'[t].outcome = "error"
  /\ ret'[t].exc = "FileNotFoundError"

----------------------------------------------------------------------------
\* The menu loops and errors.

\* What the loops print for an exception they caught.
ErrorMessages == {"invalid_input", "unexpected", "error_occurred"}

\* C13: in both menu loops an exception raised during a pass (by input, by
\* int() on the year typed, by the load or by the search) is caught in that
\* pass, a message is printed and the loop is at its prompt again; no
\* exception leaves the loop, and the loop ends only from its prompt with
\* the choice '4', after which nothing more happens in it.
ErrorsKeepLoopRunning ==
  [][ /\ ui'.pc # "crashed"
      /\ simple'.pc # "crashed"
      /\ (ui.pc = "searching" /\ ui'.pc # "searching" /\ ret[1].outcome = "error")
           => (ui'.pc = "prompt" /\ ui'.msg \in ErrorMessages /\ pc'[1] = "idle")
      /\ (ui'.pc = "exited" /\ ui.pc # "exited")
           => (ui.pc = "prompt" /\ ui'.choice = <<"4">> /\ ui'.msg = "exiting")
      /\ (simple'.pc = "exited" /\ simple.pc # "exited")
           => (/\ simple.pc = "prompt"
               /\ simple'.choice = <<"4">>
               /\ simple'.msg = "exiting")
      /\ (ui.pc = "prompt" /\ ui' # ui /\ ui'.pc \notin {"searching", "exited"})
           => (/\ ui'.pc = "prompt"
               /\ ui'.msg \in ErrorMessages \cup {"invalid_choice"})
      /\ (simple.pc = "prompt" /\ simple' # simple /\ simple'.pc # "exited")
           => (/\ simple'.pc = "prompt"
               /\ simple'.msg \in ErrorMessages \cup
                    {"invalid_choice", "invalid_year", "results", "no_movies"})
      /\ ui.pc = "exited" => ui' = ui
      /\ simple.pc = "exited" => simple' = simple
    ]_vars

\* ConsoleUI.run is at its prompt again after a director search whose load
\* raised in _build_index.
LoopContinuedAfterError ==
  /\ ui.pc = "prompt"
  /\ ui.msg = "unexpected"
  /\ ui.last.criteria = "DIRECTOR"
  /\ pc[1] = "idle"
  /\ movies.loaded
  /\ IndexFails(movies.recs)

----------------------------------------------------------------------------
\* The indices after a reload.

\* k is the decimal text of the int y, as str(y) writes it.
IsStrOf(k, y) ==
  /\ IntParses(k)
  /\ IntValue(k) = y
  /\ (Len(k) = 1 \/ k[1] # "0")

\* k is the director d in lower case.
IsLowerOf(k, d) ==
  /\ Len(k) = Len(d)
  /\ \A i \in 1..Len(d) : k[i] = LowerChar(d[i])

\* idx holds, under every key, the records of recs that key stands for, each
\* once and in the order of recs, has no key without a record, and misses no
\* record of recs.
IsFullIndexOf(idx, recs) ==
  /\ \A k \in DOMAIN idx.year :
       /\ idx.year[k] # <<>>
       /\ idx.year[k] = SelectSeq(recs, LAMBDA m : IsStrOf(k, m.release_year))
  /\ \A k \in DOMAIN idx.director :
       /\ idx.director[k] # <<>>
       /\ idx.director[k] = SelectSeq(recs, LAMBDA m : IsLowerOf(k, m.director))
  /\ \A i \in 1..Len(recs) :
       /\ \E k \in DOMAIN idx.year : IsStrOf(k, recs[i].release_year)
       /\ \E k \in DOMAIN idx.director : IsLowerOf(k, recs[i].director)

\* C14: the step in which a reload succeeds leaves both indices the full
\* index of the snapshot it installs, with nothing of the snapshot before;
\* and they stay so for as long as the snapshot is one a reload that
\* succeeded installed.
IndexRebuiltOnReload ==
  /\ [][\A t \in Threads :
          ReloadsUnderLock(t) => IsFullIndexOf(index', movies'.recs)]_vars
  /\ []((movies.loaded /\ ~IndexFails(movies.recs))
          => IsFullIndexOf(index, movies.recs))

\* The second version of the file, with other movies, has been reloaded
\* while a thread still holds the list of the first.
ReloadedOverEarlierSnapshot ==
  /\ movies.loaded
  /\ movies.ver = 2
  /\ last_modified = 2
  /\ ~IndexFails(movies.recs)
  /\ Len(movies.recs) = 1
  /\ \E t \in Threads : pc[t] = "compute" /\ snap[t].ver = 1
                          /\ Len(snap[t].recs) = 2

----------------------------------------------------------------------------
\* Arguments of the wrong type.  A caller other than ConsoleUI passes
\* MovieManager.search what it likes: one thread, call after call, on a file
\* that stays as it is.

ArgQueries ==
  { Query("YEAR", StrArg(<<"2">>)),
    Query("YEAR", StrArg(<<"x">>)),
    Query("TITLE", IntArg(2)),
    Query("DIRECTOR", IntArg(2)),
    Query("YEAR", IntArg(2)),
    Query("TITLE", StrArg(<<"b">>)) }

NextArgs ==
  \/ (\E a \in ArgQueries : Call(1, a)) /\ Frame
  \/ GetMtime(1) /\ Frame
  \/ Acquire(1) /\ Frame
  \/ CheckLoad(1) /\ Frame
  \/ Compute(1) /\ Frame
  \/ Return(1) /\ Frame

SpecArgs == InitSearch /\ [][NextArgs]_vars

\* The argument is not of the type the query kind takes.
Malformed(a) ==
  \/ a.criteria = "YEAR" /\ a.query.t # "int"
  \/ a.criteria \in {"TITLE", "DIRECTOR"} /\ a.query.t # "str"

\* C15: a search call whose argument is malformed ends by raising and gives
\* its caller no result; the strategy's step on that argument changes
\* neither the store nor the cache.
MalformedArgumentFails ==
  [][ \A t \in Threads :
        /\ (Malformed(args'[t]) /\ pc[t] # "done" /\ pc'[t] = "done")
             => (ret'[t].outcome = "error" /\ ret'[t].result = <<>>)
        /\ (Malformed(args[t]) /\ pc[t] = "compute" /\ pc'[t] = "done")
             => /\ movies' = movies
                /\ index' = index
                /\ last_modified' = last_modified
                /\ cache' = cache ]_vars

----------------------------------------------------------------------------
\* Errors and the cache.

\* Thread t's call ends in this step by raising.
Raises(t) == pc[t] # "done" /\ pc'[t] = "done" /\ ret'[t].outcome = "error"

\* C16: the step in which a search call raises leaves the cache as it was,
\* with no entry for the call's arguments; a call whose arguments are not
\* in the cache goes to the store and reads the file's mtime; and when it
\* has reloaded the file and the file is still that version, it returns the
\* records of exactly the file's matching rows, in file order.
ErrorNotCached ==
  [][ \A t \in Threads :
        /\ Raises(t)
             => (cache' = cache /\ ~Cached(cache', KeyOf(args'[t])))
        /\ (Starts(t) /\ ~Cached(cache, KeyOf(args'[t])))
             => (pc'[t] = "getmtime" /\ ~ret'[t].hit)
        /\ (pc[t] = "getmtime" /\ pc'[t] # "getmtime") => ret'[t].accessed
        /\ (/\ Computes(t)
            /\ ret[t].reloaded
            /\ file.exists
            /\ snap[t].ver = file.mtime)
             => RecordsOf(ret'[t].result, file.rows,
                          {i \in 1..Len(file.rows) :
                             RowMatches(file.rows[i], args[t])})
    ]_vars

\* The query of the search that raised has been issued again, has gone to
\* the store, which reloaded the file, and has returned movies.
AnsweredAfterError ==
  /\ ui.pc = "searching"
  /\ pc[1] = "done"
  /\ ui.last = args[1]
  /\ ret[1].outcome = "ok"
  /\ ~ret[1].hit
  /\ ret[1].accessed
  /\ ret[1].reloaded
  /\ ret[1].result # <<>>

----------------------------------------------------------------------------
\* The timestamp and the version in the snapshot.

\* C17: whatever the interleaving of calls and file modifications, the
\* timestamp is never greater than the mtime of the file version the
\* snapshot was read from (and is 0 while nothing is loaded); so a call
\* that read the mtime of the file's present version and is returned a list
\* is returned the records of exactly that version's rows.
TimestampNeverAhead ==
  /\ [](IF movies.loaded THEN last_modified <= movies.ver
                         ELSE last_modified = 0)
  /\ [][\A t \in Threads :
          (/\ LeavesLock(t)
           /\ pc'[t] = "compute"
           /\ file.exists
           /\ current_mtime[t] = file.mtime)
            => /\ snap'[t].ver = file.mtime
               /\ RecordsOf(snap'[t].recs, file.rows, 1..Len(file.rows))]_vars

\* The file was modified between a call's reading of the mtime and its
\* reload: the snapshot is the second version, the timestamp that of the
\* first.
TimestampBehindSnapshot ==
  \E t \in Threads :
    /\ pc[t] = "compute"
    /\ ret[t].reloaded
    /\ snap[t].ver = 2
    /\ movies.ver = 2
    /\ last_modified = 1
    /\ file.mtime = 2

----------------------------------------------------------------------------
\* Progress of concurrent calls.  The scheduler lets every thread that can
\* take a step take it, and a thread waiting for the lock gets it if the
\* lock is free again and again (threading.Lock hands it to some waiter;
\* that it is not always the same one is the fairness assumed).

Fairness ==
  \A t \in Threads :
    /\ WF_vars(GetMtime(t) /\ Frame)
    /\ SF_vars(Acquire(t) /\ Frame)
    /\ WF_vars(CheckLoad(t) /\ Frame)
    /\ WF_vars(Compute(t) /\ Frame)

\* The concurrent callers with fewer files and queries: progress depends on
\* the lock and on the ways out of the with statement, which these cover.
FairContents == {GoodTwo, NoDirector}

FairQueries ==
  { Query("DIRECTOR", StrArg(<<"a">>)),
    Query("YEAR", IntArg(2)) }

NextFair ==
  \/ (\E c \in FairContents : WriteFile(c)) /\ Frame
  \/ RemoveFile /\ Frame
  \/ (\E t \in Threads : \E a \in FairQueries : Call(t, a)) /\ Frame
  \/ (\E t \in Threads : GetMtime(t)) /\ Frame
  \/ (\E t \in Threads : Acquire(t)) /\ Frame
  \/ (\E t \in Threads : CheckLoad(t)) /\ Frame
  \/ (\E t \in Threads : Compute(t)) /\ Frame
  \/ (\E t \in Threads : Return(t)) /\ Frame

SpecFair == Init /\ [][NextFair]_vars /\ Fairness

----------------------------------------------------------------------------
\* The two variants side by side: both constructed on the same well-formed
\* file, the same query put to MovieManager.search on a fresh cache and to
\* the search_by_ method of the simple variant.

\* Rows of three cells whose release_year cell int() accepts.
BothRows ==
  { Row(<<"A", "b">>, <<"1">>, <<"a", "B">>),
    Row(<<"b">>, <<"2">>, <<"A", "b">>),
    Row(<<"B", "a">>, <<"0", "2">>, <<"B">>) }

BothContents ==
  {<<>>} \cup {<<r>> : r \in BothRows}
         \cup {<<r1, r2>> : r1 \in BothRows, r2 \in BothRows}

BothQueries ==
  { Query("TITLE", StrArg(<<"b">>)),
    Query("TITLE", StrArg(<<"B", "A">>)),
    Query("DIRECTOR", StrArg(<<"a", "b">>)),
    Query("DIRECTOR", StrArg(<<"B">>)),
    Query("YEAR", IntArg(1)),
    Query("YEAR", IntArg(2)),
    Query("YEAR", IntArg(3)) }

InitBoth ==
  /\ file \in {[exists |-> TRUE, mtime |-> 1, rows |-> c] : c \in BothContents}
  /\ movies = NoMovies
  /\ last_modified = 0
  /\ index = [year |-> EmptyDict, director |-> EmptyDict]
  /\ lock = 0
  /\ cache = <<>>
  /\ pc = [t \in Threads |-> "idle"]
  /\ args = [t \in Threads |-> NoQuery]
  /\ current_mtime = [t \in Threads |-> 0]
  /\ snap = [t \in Threads |-> NoMovies]
  /\ ret = [t \in Threads |-> NoRet]
  /\ ui = NoUI
  /\ simple = [NoSimple EXCEPT !.movies = SimpleLoad(file)]

\* The simple variant is put the query thread 1 has been answered.
SimpleSearch ==
  /\ pc[1] = "done"
  /\ simple.msg = "none"
  /\ LET a == args[1]
         r == CASE a.criteria = "TITLE" -> search_by_name(simple.movies, a.query.v)
                [] a.criteria = "YEAR" -> search_by_year(simple.movies, a.query.v)
                [] OTHER -> search_by_director(simple.movies, a.query.v)
     IN  simple' = [simple EXCEPT !.result = r,
                                  !.msg = IF r = <<>> THEN "no_movies"
                                                      ELSE "results"]
  /\ UNCHANGED <<file, movies, last_modified, index, lock, cache, pc, args,
                 current_mtime, snap, ret, ui>>

NextBoth ==
  \/ (\E a \in BothQueries : Call(1, a)) /\ Frame
  \/ GetMtime(1) /\ Frame
  \/ Acquire(1) /\ Frame
  \/ CheckLoad(1) /\ Frame
  \/ Compute(1) /\ Frame
  \/ SimpleSearch

SpecBoth == InitBoth /\ [][NextBoth]_vars

\* The row dicts ds and the Movie records ms are the same movies in the same
\* order.
SameMovies(ds, ms) ==
  /\ Len(ds) = Len(ms)
  /\ \A i \in 1..Len(ds) :
       /\ ds[i].title = ms[i].title
       /\ ds[i].director = ms[i].director
       /\ IntValue(ds[i].release_year) = ms[i].release_year

\* C19: on a file whose rows all have three cells with an integer
\* release_year, the simple variant's search_by_name, search_by_year and
\* search_by_director return the same movies in the same order as
\* MovieManager.search with TITLE, YEAR and DIRECTOR on a fresh cache.
VariantsAgree ==
  (pc[1] = "done" /\ simple.msg # "none")
    => /\ ret[1].outcome = "ok"
       /\ SameMovies(simple.result, ret[1].result)

====
